---- MODULE Spec2Model ----
(***************************************************************************)
(* Model of synapse/rest/client/v1/directory.py (the room alias directory  *)
(* and the published room lists) and of synapse/config/account_validity.py *)
(* (loading of the account validity configuration).                        *)
(*                                                                         *)
(* Independent parts share this module, each with its own                  *)
(* specification:                                                          *)
(*   SpecDirectory    ClientDirectoryServer: on_GET, on_PUT, on_DELETE     *)
(*   SpecRace         on_PUT only, every request slot used once            *)
(*   SpecPublication  ClientDirectoryListServer and                        *)
(*                    ClientAppserviceDirectoryListServer                  *)
(*   SpecPolicy       AccountValidityConfig.read_config and the module     *)
(*                    chain it builds                                      *)
(* A servlet method is cut into one action per await: the code between two *)
(* awaits runs without interleaving, the awaited call is one atomic step.  *)
(***************************************************************************)
EXTENDS Integers, Sequences, FiniteSets, TLC

VARIABLES
    rooms,            \* room store: the set of room ids that exist
    room_aliases,     \* room_aliases table: rows [alias, room_id, creator]
    create_policy,    \* requester kinds DirectoryAuthorization allows to create
    req,              \* alias requests in flight: slot -> request record
    room_is_public,   \* rooms table: room id -> is_public, for the rooms that exist
    appservice_room_list, \* appservice_room_list table: rows
                      \* [appservice_id, network_id, room_id]
    resp,             \* the room list request served last, with its response
    config,           \* the account_validity value of the configuration file
    public_baseurl,   \* the public_baseurl of the server configuration, or None
    cfg,              \* AccountValidityConfig: the attributes read_config sets
    chk               \* the is_user_expired call in progress

dirVars == <<rooms, room_aliases, create_policy, req>>

pubVars == <<room_is_public, appservice_room_list, resp>>

polVars == <<config, public_baseurl, cfg, chk>>

notDirVars == <<pubVars, polVars>>

notPubVars == <<dirVars, polVars>>

notPolVars == <<dirVars, pubVars>>

vars == <<rooms, room_aliases, create_policy, req,
          room_is_public, appservice_room_list, resp,
          config, public_baseurl, cfg, chk>>

(***************************************************************************)
(* Bounds                                                                  *)
(***************************************************************************)
\* request slots of SpecDirectory (requests in flight at the same time)
NumReqs == 2
\* request slots of SpecRace (the N of "N concurrent create_association")
NumRace == 3

(***************************************************************************)
(* Inputs                                                                  *)
(***************************************************************************)
None == "None"

\* access tokens a request can carry; "bad" stands for a missing or unknown one
DirTokens == {"bad", "tok_alice", "tok_admin", "tok_as1"}

Aliases == {"#a:hs", "#b:hs"}

\* the alias the requests of SpecDirectory are about; "#b:hs" is bound before
\* the first request and no request names it
DirAliases == {"#a:hs"}

BackgroundRow == [alias |-> "#b:hs", room_id |-> "!r2:hs", creator |-> "@bob:hs"]

RoomIds == {"!r1:hs", "!r2:hs", "!r3:hs"}

\* the rooms of the racing requests of SpecRace: request i asks for RaceRoom(i)
RoomSeq == <<"!r1:hs", "!r2:hs", "!r3:hs", "!r4:hs", "!r5:hs", "!r6:hs">>

RaceRoom(i) == RoomSeq[i]

\* the policies DirectoryAuthorization may have for CreateAlias: it decides on
\* the requester's kind; regular users may or may not create aliases
CreatePolicies == {{"user", "admin", "appservice"}, {"admin", "appservice"}}

\* content["room_id"]: a room id, or the key is missing
NoKey == "NoKey"

(***************************************************************************)
(* Authentication (synapse.api.auth, behind hs.get_auth())                 *)
(***************************************************************************)
ServerAdmins == {"@admin:hs", "@as2bot:hs"}

\* Exception classes and their base classes (synapse.api.errors)
Bases(cls) ==
    CASE cls = "MissingClientTokenError" ->
            {"MissingClientTokenError", "InvalidClientCredentialsError", "SynapseError"}
      [] cls = "InvalidTokenError" ->
            {"InvalidTokenError", "InvalidClientCredentialsError", "SynapseError"}
      [] cls = "NotFoundError" -> {"NotFoundError", "SynapseError"}
      [] cls = "AuthError" -> {"AuthError", "SynapseError"}
      [] OTHER -> {cls}

Raise(cls, code) == [ok |-> FALSE, cls |-> cls, code |-> code]

\* auth.get_appservice_by_req: the appservice owning the token, or raises
get_appservice_by_req(tok) ==
    CASE tok = "tok_as1" -> [ok |-> TRUE, id |-> "as1", sender |-> "@as1bot:hs"]
      [] tok = "tok_as2" -> [ok |-> TRUE, id |-> "as2", sender |-> "@as2bot:hs"]
      [] tok = "bad" -> Raise("MissingClientTokenError", 401)
      [] OTHER -> Raise("InvalidTokenError", 401)

\* auth.get_user_by_req: the Requester of the token, or raises
get_user_by_req(tok) ==
    CASE tok = "tok_alice" -> [ok |-> TRUE, user |-> "@alice:hs", app_service |-> None]
      [] tok = "tok_admin" -> [ok |-> TRUE, user |-> "@admin:hs", app_service |-> None]
      [] tok = "tok_as1" -> [ok |-> TRUE, user |-> "@as1bot:hs", app_service |-> "as1"]
      [] tok = "tok_as2" -> [ok |-> TRUE, user |-> "@as2bot:hs", app_service |-> "as2"]
      [] OTHER -> Raise("MissingClientTokenError", 401)

\* auth.is_server_admin
is_server_admin(user) == user \in ServerAdmins

\* the kind of a requester, as DirectoryAuthorization sees it
RequesterKind(requester) ==
    IF requester.app_service # None THEN "appservice"
    ELSE IF is_server_admin(requester.user) THEN "admin"
    ELSE "user"

RequesterKinds == {"user", "admin", "appservice"}

(***************************************************************************)
(* Directory handler and its storage (hs.get_directory_handler())          *)
(***************************************************************************)
RowsOf(aliases, alias) == {row \in aliases : row.alias = alias}

\* get_association: the room an alias maps to
get_association(aliases, alias) ==
    IF RowsOf(aliases, alias) = {}
    THEN [code |-> 404, room_id |-> None]
    ELSE [code |-> 200, room_id |-> (CHOOSE row \in RowsOf(aliases, alias) : TRUE).room_id]

\* create_association: authorization, then one storage transaction that
\* refuses an alias bound to another room and replaces the record otherwise
create_association(aliases, policy, requester, alias, room_id) ==
    IF RequesterKind(requester) \notin policy
    THEN [code |-> 403, aliases |-> aliases]
    ELSE IF \E row \in RowsOf(aliases, alias) : row.room_id # room_id
    THEN [code |-> 409, aliases |-> aliases]
    ELSE [code |-> 200,
          aliases |-> (aliases \ RowsOf(aliases, alias))
                      \cup {[alias |-> alias, room_id |-> room_id,
                             creator |-> requester.user]}]

\* delete_association: the creator or a server admin deletes the record
delete_association(aliases, requester, alias) ==
    IF RowsOf(aliases, alias) = {}
    THEN [code |-> 404, aliases |-> aliases]
    ELSE IF \/ is_server_admin(requester.user)
            \/ \E row \in RowsOf(aliases, alias) : row.creator = requester.user
    THEN [code |-> 200, aliases |-> aliases \ RowsOf(aliases, alias)]
    ELSE [code |-> 403, aliases |-> aliases]

\* delete_appservice_association: the caller is a verified appservice
delete_appservice_association(aliases, service, alias) ==
    IF RowsOf(aliases, alias) = {}
    THEN [code |-> 404, aliases |-> aliases]
    ELSE [code |-> 200, aliases |-> aliases \ RowsOf(aliases, alias)]

\* the exception a handler result stands for
HandlerError(code) ==
    CASE code = 404 -> Raise("NotFoundError", 404)
      [] code = 403 -> Raise("AuthError", 403)
      [] OTHER -> Raise("SynapseError", code)

(***************************************************************************)
(* ClientDirectoryServer                                                   *)
(***************************************************************************)
Idle ==
    [method |-> "idle", pc |-> "idle", tok |-> None, alias |-> None,
     room_id |-> None, room |-> None, code |-> 0, hres |-> 0, calls |-> <<>>]

\* on_GET: the association of the alias
on_GET(aliases, alias) == get_association(aliases, alias)

\* a servlet that does not check the result of get_room
RoomMissing_Unchecked(room) == FALSE

\* on_PUT, "if room is None": the room store has no such room
RoomMissing(room) == room = None

\* store.get_room
get_room(room_id) == IF room_id \in rooms THEN room_id ELSE None

\* a servlet that catches what create_association raises and answers 200
PutResponse_Swallowed(hcode) == 200

\* a servlet that reports every error of create_association as a bad request
PutResponse_BadRequest(hcode) == IF hcode = 200 THEN 200 ELSE 400

\* on_PUT, the response after create_association: 200, or the error it raised
PutResponse(hcode) == hcode

\* a servlet whose except clause catches every error
FallsThrough_AnyError(exc) == TRUE

\* on_DELETE, "except InvalidClientCredentialsError": the errors of the
\* appservice path that fall through to the user path
FallsThrough(exc) == "InvalidClientCredentialsError" \in Bases(exc.cls)

\* on_PUT up to the end of its first await: the body is parsed, room_id is
\* required, and the room is looked up in the room store
PutBegin(i, tok, alias, room_id) ==
    /\ req[i].pc = "idle"
    /\ LET base == [Idle EXCEPT !.method = "PUT", !.tok = tok, !.alias = alias,
                                !.room_id = room_id]
       IN IF room_id = NoKey
          THEN req' = [req EXCEPT ![i] = [base EXCEPT !.pc = "done", !.code = 400,
                                                      !.room = NoKey]]
          ELSE LET room == get_room(room_id)
               IN IF RoomMissing(room)
                  THEN req' = [req EXCEPT ![i] =
                                 [base EXCEPT !.pc = "done", !.code = 400, !.room = room]]
                  ELSE req' = [req EXCEPT ![i] =
                                 [base EXCEPT !.pc = "get_user", !.room = room]]
    /\ UNCHANGED <<rooms, room_aliases, create_policy>>
    /\ UNCHANGED notDirVars

\* on_PUT: await self.auth.get_user_by_req(request)
PutAuth(i) ==
    /\ req[i].method = "PUT" /\ req[i].pc = "get_user"
    /\ LET requester == get_user_by_req(req[i].tok)
       IN IF requester.ok
          THEN req' = [req EXCEPT ![i].pc = "create"]
          ELSE req' = [req EXCEPT ![i].pc = "done", ![i].code = requester.code]
    /\ UNCHANGED <<rooms, room_aliases, create_policy>>
    /\ UNCHANGED notDirVars

\* on_PUT: await self.directory_handler.create_association(...)
PutCreate(i) ==
    /\ req[i].method = "PUT" /\ req[i].pc = "create"
    /\ LET requester == get_user_by_req(req[i].tok)
           res == create_association(room_aliases, create_policy, requester,
                                     req[i].alias, req[i].room_id)
       IN /\ room_aliases' = res.aliases
          /\ req' = [req EXCEPT ![i].pc = "done",
                                ![i].hres = res.code,
                                ![i].code = PutResponse(res.code),
                                ![i].calls = Append(@, "create_association")]
    /\ UNCHANGED <<rooms, create_policy>>
    /\ UNCHANGED notDirVars

\* on_DELETE up to the end of its first await: the appservice path, or the
\* fall through to the user path
DeleteBegin(i, tok, alias) ==
    /\ req[i].pc = "idle"
    /\ LET base == [Idle EXCEPT !.method = "DELETE", !.tok = tok, !.alias = alias]
           service == get_appservice_by_req(tok)
       IN IF service.ok
          THEN LET res == delete_appservice_association(room_aliases, service, alias)
                   called == <<"delete_appservice_association">>
               IN /\ room_aliases' = res.aliases
                  /\ IF res.code # 200 /\ FallsThrough(HandlerError(res.code))
                     THEN req' = [req EXCEPT ![i] =
                                    [base EXCEPT !.pc = "del_user", !.hres = res.code,
                                                 !.calls = called]]
                     ELSE req' = [req EXCEPT ![i] =
                                    [base EXCEPT !.pc = "done", !.hres = res.code,
                                                 !.code = res.code, !.calls = called]]
          ELSE /\ room_aliases' = room_aliases
               /\ IF FallsThrough(service)
                  THEN req' = [req EXCEPT ![i] = [base EXCEPT !.pc = "del_user"]]
                  ELSE req' = [req EXCEPT ![i] =
                                 [base EXCEPT !.pc = "done", !.code = service.code]]
    /\ UNCHANGED <<rooms, create_policy>>
    /\ UNCHANGED notDirVars

\* on_DELETE, user path: await self.auth.get_user_by_req(request)
DeleteAuth(i) ==
    /\ req[i].method = "DELETE" /\ req[i].pc = "del_user"
    /\ LET requester == get_user_by_req(req[i].tok)
       IN IF requester.ok
          THEN req' = [req EXCEPT ![i].pc = "delete",
                                  ![i].calls = Append(@, "get_user_by_req")]
          ELSE req' = [req EXCEPT ![i].pc = "done", ![i].code = requester.code,
                                  ![i].calls = Append(@, "get_user_by_req")]
    /\ UNCHANGED <<rooms, room_aliases, create_policy>>
    /\ UNCHANGED notDirVars

\* on_DELETE, user path: await self.directory_handler.delete_association(...)
DeleteUser(i) ==
    /\ req[i].method = "DELETE" /\ req[i].pc = "delete"
    /\ LET requester == get_user_by_req(req[i].tok)
           res == delete_association(room_aliases, requester, req[i].alias)
       IN /\ room_aliases' = res.aliases
          /\ req' = [req EXCEPT ![i].pc = "done", ![i].hres = res.code,
                                ![i].code = res.code,
                                ![i].calls = Append(@, "delete_association")]
    /\ UNCHANGED <<rooms, create_policy>>
    /\ UNCHANGED notDirVars

\* the response is sent and the slot serves the next request
Respond(i) ==
    /\ req[i].pc = "done"
    /\ req' = [req EXCEPT ![i] = Idle]
    /\ UNCHANGED <<rooms, room_aliases, create_policy>>
    /\ UNCHANGED notDirVars

\* a room is created (room store, outside this servlet)
RoomCreated(r) ==
    /\ r \notin rooms
    /\ rooms' = rooms \cup {r}
    /\ UNCHANGED <<room_aliases, create_policy, req>>
    /\ UNCHANGED notDirVars

\* the room lists are not part of the alias directory
InitPublicationIdle ==
    /\ room_is_public = [r \in {} |-> FALSE]
    /\ appservice_room_list = {}
    /\ resp = [servlet |-> "none"]

\* nor is the account validity configuration
InitPolicyIdle ==
    /\ config = [type |-> "none"]
    /\ public_baseurl = None
    /\ cfg = [pc |-> "unloaded"]
    /\ chk = [pc |-> "idle"]

InitDirectory ==
    /\ rooms = {"!r1:hs", "!r2:hs"}
    /\ room_aliases = {BackgroundRow}
    /\ create_policy \in CreatePolicies
    /\ req = [i \in 1..NumReqs |-> Idle]
    /\ InitPublicationIdle
    /\ InitPolicyIdle

DoPutBegin == \E i \in DOMAIN req, tok \in DirTokens, alias \in DirAliases,
                 room_id \in RoomIds \cup {NoKey} : PutBegin(i, tok, alias, room_id)
DoPutAuth == \E i \in DOMAIN req : PutAuth(i)
DoPutCreate == \E i \in DOMAIN req : PutCreate(i)
DoDeleteBegin == \E i \in DOMAIN req, tok \in DirTokens, alias \in DirAliases :
                    DeleteBegin(i, tok, alias)
DoDeleteAuth == \E i \in DOMAIN req : DeleteAuth(i)
DoDeleteUser == \E i \in DOMAIN req : DeleteUser(i)
DoRespond == \E i \in DOMAIN req : Respond(i)
DoRoomCreated == \E r \in RoomIds : RoomCreated(r)

NextDirectory ==
    \/ DoPutBegin
    \/ DoPutAuth
    \/ DoPutCreate
    \/ DoDeleteBegin
    \/ DoDeleteAuth
    \/ DoDeleteUser
    \/ DoRespond
    \/ DoRoomCreated

SpecDirectory == InitDirectory /\ [][NextDirectory]_vars

\* N requests race: request i asks to bind an alias to room RaceRoom(i); the
\* last of these rooms is created while the race runs
InitRace ==
    /\ rooms = {RaceRoom(i) : i \in 1..(NumRace - 1)}
    /\ room_aliases = {}
    /\ create_policy \in CreatePolicies
    /\ req = [i \in 1..NumRace |-> Idle]
    /\ InitPublicationIdle
    /\ InitPolicyIdle

DoRaceBegin == \E i \in DOMAIN req, tok \in DirTokens, alias \in Aliases :
                  PutBegin(i, tok, alias, RaceRoom(i))
DoRaceRoomCreated == \E i \in DOMAIN req : RoomCreated(RaceRoom(i))

NextRace ==
    \/ DoRaceBegin
    \/ DoPutAuth
    \/ DoPutCreate
    \/ DoRaceRoomCreated

SpecRace == InitRace /\ [][NextRace]_vars

(***************************************************************************)
(* Claims about ClientDirectoryServer                                      *)
(***************************************************************************)
Range(seq) == {seq[k] : k \in DOMAIN seq}

HasAppserviceCredentials(tok) == get_appservice_by_req(tok).ok

\* C2: an alias DELETE takes exactly one deletion path, chosen by the kind of
\* credentials alone. Without valid appservice credentials the request goes to
\* the user path (get_user_by_req, then delete_association) and its outcome is
\* that path's; with them only delete_appservice_association is invoked and
\* its result, a failure included, is the response: delete_association and
\* get_user_by_req are never reached.
C2_DeletePathByCredentials ==
    \A i \in DOMAIN req :
        req[i].method = "DELETE" =>
            LET r == req[i]
                requester == get_user_by_req(r.tok)
            IN /\ ~ /\ "delete_appservice_association" \in Range(r.calls)
                     /\ "delete_association" \in Range(r.calls)
               /\ HasAppserviceCredentials(r.tok) =>
                     /\ r.pc = "done"
                     /\ r.calls = <<"delete_appservice_association">>
                     /\ r.code = r.hres
               /\ ~HasAppserviceCredentials(r.tok) =>
                     /\ "delete_appservice_association" \notin Range(r.calls)
                     /\ r.pc = "done" =>
                           IF requester.ok
                           THEN /\ r.calls = <<"get_user_by_req", "delete_association">>
                                /\ r.code = r.hres
                           ELSE /\ r.calls = <<"get_user_by_req">>
                                /\ r.code = 401

\* C2 witness: an appservice DELETE that failed and was answered with that
\* failure, beside a user DELETE that fell through and deleted the alias
C2_Witness ==
    \E i, j \in DOMAIN req :
        /\ req[i].method = "DELETE" /\ req[i].pc = "done"
        /\ HasAppserviceCredentials(req[i].tok) /\ req[i].code = 404
        /\ req[j].method = "DELETE" /\ req[j].pc = "done"
        /\ ~HasAppserviceCredentials(req[j].tok) /\ req[j].code = 200
        /\ req[j].calls = <<"get_user_by_req", "delete_association">>

RoomWasMissing(r) == r.method = "PUT" /\ r.room = None

\* C3: an alias creation request whose room is not in the room store when
\* on_PUT looks it up is answered 400 whoever sent it, never reaches
\* create_association, and the step that handles it leaves the alias table
\* as it was.
C3_MissingRoomIsBadRequest ==
    /\ [](\A i \in DOMAIN req :
            RoomWasMissing(req[i]) =>
                /\ req[i].pc = "done"
                /\ req[i].code = 400
                /\ req[i].calls = <<>>
                /\ req[i].hres = 0)
    /\ [][\A i \in DOMAIN req :
            (req'[i] # req[i] /\ RoomWasMissing(req'[i])) =>
                room_aliases' = room_aliases]_vars

\* C3 witness: a request without credentials, for a room that does not exist,
\* answered 400 while the alias is bound
C3_Witness ==
    \E i \in DOMAIN req :
        /\ RoomWasMissing(req[i]) /\ req[i].pc = "done" /\ req[i].code = 400
        /\ req[i].tok = "bad"
        /\ on_GET(room_aliases, req[i].alias).code = 200

\* the racing calls: the requests that reached create_association and passed
\* its authorization
RaceCalls(alias) ==
    {i \in DOMAIN req :
        /\ req[i].method = "PUT" /\ req[i].pc = "done"
        /\ req[i].alias = alias
        /\ req[i].hres \in {200, 409}}

\* C4: of the create_association calls made for one alias, unmapped before,
\* with pairwise distinct rooms, exactly one succeeds, every other one fails
\* with Conflict, and the alias maps to the room of the one that succeeded,
\* whatever the interleaving of the requests' steps.
C4_OneWinner ==
    \A alias \in Aliases :
        LET calls == RaceCalls(alias)
            won == {i \in calls : req[i].code = 200}
        IN (/\ calls # {}
            /\ \A i, j \in calls : i # j => req[i].room_id # req[j].room_id)
           => /\ Cardinality(won) = 1
              /\ \A i \in calls \ won : req[i].code = 409
              /\ \A i \in won :
                    on_GET(room_aliases, alias) = [code |-> 200, room_id |-> req[i].room_id]

\* C4 witness: every request of the race called create_association for the
\* same alias; one won and the others got Conflict
C4_Witness ==
    \E alias \in Aliases :
        /\ RaceCalls(alias) = DOMAIN req
        /\ Cardinality({i \in DOMAIN req : req[i].code = 409}) = Cardinality(DOMAIN req) - 1

\* at most one room per alias
AliasUnique ==
    \A r1, r2 \in room_aliases : r1.alias = r2.alias => r1.room_id = r2.room_id

\* C5: when an alias is bound to R1, create_association for it with another
\* existing room R2 by an authorized requester is answered Conflict and
\* get_association still returns R1; and in every state an alias has at most
\* one room.
C5_SecondCreateConflicts ==
    /\ []AliasUnique
    /\ [][\A i \in DOMAIN req :
            (req[i].method = "PUT" /\ req[i].pc = "create" /\ req'[i].pc = "done") =>
                LET before == on_GET(room_aliases, req[i].alias)
                IN (/\ before.code = 200
                    /\ before.room_id # req[i].room_id
                    /\ RequesterKind(get_user_by_req(req[i].tok)) \in create_policy)
                   => /\ req'[i].code = 409
                      /\ on_GET(room_aliases', req[i].alias) = before]_vars

\* C5 witness: a second create_association, by the creator of the alias,
\* answered Conflict while the alias keeps its first room
C5_Witness ==
    \E i \in DOMAIN req :
        /\ req[i].method = "PUT" /\ req[i].pc = "done" /\ req[i].code = 409
        /\ \E row \in room_aliases :
              /\ row.alias = req[i].alias
              /\ row.room_id # req[i].room_id
              /\ row.creator = get_user_by_req(req[i].tok).user

(***************************************************************************)
(* ClientDirectoryListServer and ClientAppserviceDirectoryListServer       *)
(*                                                                         *)
(* What these servlets await before their handler call (get_user_by_req,   *)
(* is_server_admin) reads only the credentials, which no request changes,  *)
(* and the handler call is one storage write: a request is one action.     *)
(***************************************************************************)
PubTokens == {"bad", "tok_alice", "tok_admin", "tok_as1", "tok_as2"}

\* the rooms of the room store, and a room id it does not hold
PubRooms == {"!r1:hs", "!r2:hs"}

UnknownRoom == "!r9:hs"

NetworkIds == {"irc", "gitter"}

\* the appservice ids a row or a call can carry: the registered appservices
\* and the "" of a server admin
AppserviceIds == {"", "as1", "as2"}

\* content.get("visibility"): the key is missing, or a visibility
RawVisibility == {NoKey, "public", "private"}

NoCall == [fn |-> "none", appservice_id |-> None, network_id |-> None,
           room_id |-> None, visibility |-> None]

\* PublicationRegistry, Global scope: edit_published_room_list
edit_published_room_list(pub, room_id, visibility) ==
    [pub EXCEPT ![room_id] = (visibility = "public")]

\* PublicationRegistry, AppserviceNetwork scope:
\* edit_published_appservice_room_list upserts the entry or removes it
edit_published_appservice_room_list(list, appservice_id, network_id, room_id, visibility) ==
    LET row == [appservice_id |-> appservice_id, network_id |-> network_id,
                room_id |-> room_id]
    IN IF visibility = "public" THEN list \cup {row} ELSE list \ {row}

\* the visibility of a room in scope AppserviceNetwork{appservice_id, network_id}
AppserviceVisibility(list, appservice_id, network_id, room_id) ==
    IF [appservice_id |-> appservice_id, network_id |-> network_id,
        room_id |-> room_id] \in list
    THEN "public" ELSE "private"

\* a servlet that also reports a room of some appservice list as public
ListServer_on_GET_AnyList(pub, list, room_id) ==
    IF room_id \notin DOMAIN pub
    THEN [code |-> 404, visibility |-> None]
    ELSE [code |-> 200,
          visibility |-> IF pub[room_id] \/ \E row \in list : row.room_id = room_id
                         THEN "public" ELSE "private"]

\* ClientDirectoryListServer.on_GET: the room's is_public, 404 without the room
ListServer_on_GET(pub, list, room_id) ==
    IF room_id \notin DOMAIN pub
    THEN [code |-> 404, visibility |-> None]
    ELSE [code |-> 200, visibility |-> IF pub[room_id] THEN "public" ELSE "private"]

\* content.get("visibility", "public")
VisibilityOf(raw) == IF raw = NoKey THEN "public" ELSE raw

\* a servlet that lets a server admin list as well as delist
AppserviceIdFor_AdminAnyVisibility(requester, admin, visibility) ==
    IF requester.app_service # None
    THEN [allowed |-> TRUE, appservice_id |-> requester.app_service]
    ELSE IF admin
    THEN [allowed |-> TRUE, appservice_id |-> ""]
    ELSE [allowed |-> FALSE, appservice_id |-> None]

\* a servlet that lets a server admin delist in the name of an appservice
AppserviceIdFor_AdminForAppservice(requester, admin, visibility) ==
    IF requester.app_service # None
    THEN [allowed |-> TRUE, appservice_id |-> requester.app_service]
    ELSE IF admin /\ visibility = "private"
    THEN [allowed |-> TRUE, appservice_id |-> "as1"]
    ELSE [allowed |-> FALSE, appservice_id |-> None]

\* _edit_appservice_room_visibility, the if/elif/else: the appservice id the
\* request writes under, or AuthError(403)
AppserviceIdFor(requester, admin, visibility) ==
    IF requester.app_service # None
    THEN [allowed |-> TRUE, appservice_id |-> requester.app_service]
    ELSE IF admin /\ visibility = "private"
    THEN [allowed |-> TRUE, appservice_id |-> ""]
    ELSE [allowed |-> FALSE, appservice_id |-> None]

Response(servlet, method, tok, network_id, room_id, visibility, code, call) ==
    [servlet |-> servlet, method |-> method, tok |-> tok, network_id |-> network_id,
     room_id |-> room_id, visibility |-> visibility, code |-> code, call |-> call]

\* ClientDirectoryListServer.on_GET
ListGet(room_id) ==
    /\ resp' = Response("list", "GET", None, None, room_id,
                        ListServer_on_GET(room_is_public, appservice_room_list,
                                          room_id).visibility,
                        ListServer_on_GET(room_is_public, appservice_room_list,
                                          room_id).code,
                        NoCall)
    /\ UNCHANGED <<room_is_public, appservice_room_list>>
    /\ UNCHANGED notPubVars

\* ClientDirectoryListServer.on_PUT and on_DELETE: the requester, then
\* edit_published_room_list; permitted is the answer of the room permission
\* check the handler delegates to
EditRoomList(method, tok, room_id, visibility, permitted) ==
    LET requester == get_user_by_req(tok)
        call == [NoCall EXCEPT !.fn = "edit_published_room_list",
                               !.room_id = room_id, !.visibility = visibility]
    IN /\ IF ~requester.ok
          THEN /\ resp' = Response("list", method, tok, None, room_id, visibility,
                                   requester.code, NoCall)
               /\ room_is_public' = room_is_public
          ELSE IF ~permitted
          THEN /\ resp' = Response("list", method, tok, None, room_id, visibility,
                                   403, call)
               /\ room_is_public' = room_is_public
          ELSE /\ resp' = Response("list", method, tok, None, room_id, visibility,
                                   200, call)
               /\ room_is_public' =
                     edit_published_room_list(room_is_public, room_id, visibility)
       /\ UNCHANGED appservice_room_list
       /\ UNCHANGED notPubVars

ListPut(tok, room_id, raw, permitted) ==
    EditRoomList("PUT", tok, room_id, VisibilityOf(raw), permitted)

ListDelete(tok, room_id, permitted) ==
    EditRoomList("DELETE", tok, room_id, "private", permitted)

\* ClientAppserviceDirectoryListServer._edit_appservice_room_visibility
edit_appservice_room_visibility(method, tok, network_id, room_id, visibility) ==
    LET requester == get_user_by_req(tok)
    IN /\ IF ~requester.ok
          THEN /\ resp' = Response("appservice", method, tok, network_id, room_id,
                                   visibility, requester.code, NoCall)
               /\ appservice_room_list' = appservice_room_list
          ELSE LET admin == is_server_admin(requester.user)
                   who == AppserviceIdFor(requester, admin, visibility)
               IN IF ~who.allowed
                  THEN /\ resp' = Response("appservice", method, tok, network_id,
                                           room_id, visibility, 403, NoCall)
                       /\ appservice_room_list' = appservice_room_list
                  ELSE /\ resp' = Response("appservice", method, tok, network_id,
                                           room_id, visibility, 200,
                                           [fn |-> "edit_published_appservice_room_list",
                                            appservice_id |-> who.appservice_id,
                                            network_id |-> network_id,
                                            room_id |-> room_id,
                                            visibility |-> visibility])
                       /\ appservice_room_list' =
                             edit_published_appservice_room_list(
                                 appservice_room_list, who.appservice_id,
                                 network_id, room_id, visibility)
       /\ UNCHANGED room_is_public
       /\ UNCHANGED notPubVars

\* ClientAppserviceDirectoryListServer.on_PUT
AppservicePut(tok, network_id, room_id, raw) ==
    edit_appservice_room_visibility("PUT", tok, network_id, room_id, VisibilityOf(raw))

\* ClientAppserviceDirectoryListServer.on_DELETE
AppserviceDelete(tok, network_id, room_id) ==
    edit_appservice_room_visibility("DELETE", tok, network_id, room_id, "private")

\* the alias directory is not part of the room lists
InitDirectoryIdle ==
    /\ rooms = {}
    /\ room_aliases = {}
    /\ create_policy = {}
    /\ req = <<>>

InitPublication ==
    /\ room_is_public = [r \in PubRooms |-> FALSE]
    /\ appservice_room_list = {}
    /\ resp = Response("none", None, None, None, None, None, 0, NoCall)
    /\ InitDirectoryIdle
    /\ InitPolicyIdle

DoListGet == \E room_id \in PubRooms \cup {UnknownRoom} : ListGet(room_id)
DoListPut == \E tok \in PubTokens, room_id \in PubRooms, raw \in RawVisibility,
                permitted \in BOOLEAN : ListPut(tok, room_id, raw, permitted)
DoListDelete == \E tok \in PubTokens, room_id \in PubRooms, permitted \in BOOLEAN :
                   ListDelete(tok, room_id, permitted)
DoAppservicePut == \E tok \in PubTokens, network_id \in NetworkIds, room_id \in PubRooms,
                      raw \in RawVisibility : AppservicePut(tok, network_id, room_id, raw)
DoAppserviceDelete == \E tok \in PubTokens, network_id \in NetworkIds,
                         room_id \in PubRooms : AppserviceDelete(tok, network_id, room_id)

NextPublication ==
    \/ DoListGet
    \/ DoListPut
    \/ DoListDelete
    \/ DoAppservicePut
    \/ DoAppserviceDelete

SpecPublication == InitPublication /\ [][NextPublication]_vars

(***************************************************************************)
(* Claims about the room list servlets                                     *)
(***************************************************************************)
AppserviceCall(appservice_id) ==
    [fn |-> "edit_published_appservice_room_list", appservice_id |-> appservice_id,
     network_id |-> resp.network_id, room_id |-> resp.room_id,
     visibility |-> resp.visibility]

\* the response is that of an appservice list edit by an authenticated requester
AppserviceEditBy(r) == r.servlet = "appservice" /\ get_user_by_req(r.tok).ok

\* the requester is a server admin without app_service
AdminWithoutAppservice(tok) ==
    /\ get_user_by_req(tok).ok
    /\ get_user_by_req(tok).app_service = None
    /\ is_server_admin(get_user_by_req(tok).user)

\* C1: an appservice list edit (PUT or DELETE) of an authenticated requester
\* calls edit_published_appservice_room_list in two cases only: the requester
\* has an app_service, and the call carries its id, server admin or not; or
\* the requester has none, is a server admin and asks for private, and the
\* call carries "". Every other request is answered 403 and writes nothing.
C1_AppserviceEditAuthorization ==
    /\ [](AppserviceEditBy(resp) =>
            LET requester == get_user_by_req(resp.tok)
            IN IF requester.app_service # None
               THEN resp.code = 200 /\ resp.call = AppserviceCall(requester.app_service)
               ELSE IF is_server_admin(requester.user) /\ resp.visibility = "private"
               THEN resp.code = 200 /\ resp.call = AppserviceCall("")
               ELSE resp.code = 403 /\ resp.call = NoCall)
    /\ [][resp'.call.fn # "edit_published_appservice_room_list" =>
            appservice_room_list' = appservice_room_list]_vars

\* C1 witness: an appservice whose sender is a server admin lists a room, and
\* the write is made under the appservice's id
C1_Witness ==
    /\ resp.servlet = "appservice" /\ resp.tok = "tok_as2"
    /\ is_server_admin(get_user_by_req(resp.tok).user)
    /\ resp.visibility = "public" /\ resp.code = 200
    /\ resp.call.appservice_id = "as2"
    /\ AppserviceVisibility(appservice_room_list, "as2", resp.network_id,
                            resp.room_id) = "public"

\* C6: a write edit_published_appservice_room_list(as, net, R, v) sets the
\* entry of scope (as, net) for R and nothing else: what on_GET of the global
\* list answers for any room, and the visibility of any room under any other
\* (appservice, network) pair or of another room in the same scope, are as
\* before.
C6_ScopeIsolation ==
    [][resp'.call.fn = "edit_published_appservice_room_list" =>
        LET call == resp'.call
        IN /\ \A room_id \in PubRooms \cup {UnknownRoom} :
                ListServer_on_GET(room_is_public', appservice_room_list', room_id)
                = ListServer_on_GET(room_is_public, appservice_room_list, room_id)
           /\ \A appservice_id \in AppserviceIds, network_id \in NetworkIds,
                 room_id \in PubRooms :
                <<appservice_id, network_id, room_id>>
                  # <<call.appservice_id, call.network_id, call.room_id>>
                => AppserviceVisibility(appservice_room_list', appservice_id,
                                        network_id, room_id)
                   = AppserviceVisibility(appservice_room_list, appservice_id,
                                          network_id, room_id)
           /\ AppserviceVisibility(appservice_room_list', call.appservice_id,
                                   call.network_id, call.room_id) = call.visibility]_vars

\* C6 witness: as1 has just listed a room under one network; the room is
\* private in the global list and under as1's other network
C6_Witness ==
    /\ resp.call.fn = "edit_published_appservice_room_list"
    /\ resp.call.appservice_id = "as1" /\ resp.call.network_id = "irc"
    /\ resp.call.visibility = "public"
    /\ AppserviceVisibility(appservice_room_list, "as1", "irc", resp.room_id) = "public"
    /\ AppserviceVisibility(appservice_room_list, "as1", "gitter", resp.room_id) = "private"
    /\ ListServer_on_GET(room_is_public, appservice_room_list, resp.room_id).visibility
         = "private"
    /\ \E other \in PubRooms : other # resp.room_id /\ room_is_public[other]

MaxModules == 3

LegacyKeys == {"enabled", "period", "renew_at", "renew_email_subject"}

\* durations of the configuration file, as parse_duration reads them
PeriodValue == [n |-> 1, unit |-> "d"]

RenewAtValue == [n |-> 1, unit |-> "h"]

SubjectValue == "Please renew"

Unset == "Unset"

\* the modules load_module can resolve, and one it cannot
ModuleNames == {"mod.NoOpinion", "mod.AlwaysExpired", "mod.NeverExpired", "mod.KnowsBob"}

ListItems ==
    {[is_dict |-> TRUE, module |-> m] : m \in ModuleNames \cup {"mod.Missing"}}
    \cup {[is_dict |-> FALSE, module |-> None]}

\* config.get("account_validity"): missing, a mapping (the legacy feature), a
\* list of module descriptors, or a value of another type
NoConfig == [type |-> "none", keys |-> {}, enabled |-> FALSE, items |-> <<>>]

LegacyConfigs ==
    {[type |-> "dict", keys |-> K, enabled |-> e, items |-> <<>>] :
        K \in SUBSET LegacyKeys, e \in BOOLEAN}

ListConfigs ==
    {[type |-> "list", keys |-> {}, enabled |-> FALSE, items |-> items] :
        items \in UNION {[1..n -> ListItems] : n \in 0..MaxModules}}

OtherConfig == [type |-> "other", keys |-> {}, enabled |-> FALSE, items |-> <<>>]

ConfigInputs ==
    {NoConfig, OtherConfig}
    \cup {c \in LegacyConfigs : "enabled" \notin c.keys => ~c.enabled}
    \cup ListConfigs

\* Config.parse_duration: a number with a unit, in milliseconds
parse_duration(value) ==
    value.n * (CASE value.unit = "s" -> 1000
                 [] value.unit = "m" -> 60 * 1000
                 [] value.unit = "h" -> 60 * 60 * 1000
                 [] value.unit = "d" -> 24 * 60 * 60 * 1000
                 [] value.unit = "w" -> 7 * 24 * 60 * 60 * 1000
                 [] OTHER -> 1)

\* load_module: the module a descriptor names, or ConfigError
load_module(item) ==
    IF item.module \in ModuleNames
    THEN [ok |-> TRUE, module |-> [cls |-> item.module]]
    ELSE [ok |-> FALSE, module |-> None]

\* read_config, the first lines: the attributes before account_validity is read
Defaults ==
    [pc |-> "unloaded", err |-> None, msg |-> None, warned |-> FALSE,
     account_validity_enabled |-> FALSE,
     account_validity_renew_by_email_enabled |-> FALSE,
     account_validity_period |-> Unset,
     account_validity_renew_at |-> Unset,
     account_validity_renew_email_subject |-> Unset,
     account_validity_startup_job_max_delta |-> Unset,
     account_validity_modules |-> <<>>]

ConfigError(attrs, msg) == [attrs EXCEPT !.pc = "failed", !.err = "ConfigError", !.msg = msg]

NoBaseurlMsg == "Can't send renewal emails without 'public_baseurl'"

\* a read_legacy_config that asks for public_baseurl only when the feature is on
needs_public_baseurl_WhenEnabled(enabled, renew_by_email) == enabled /\ renew_by_email

\* read_legacy_config, "if self.account_validity_renew_by_email_enabled"
needs_public_baseurl(enabled, renew_by_email) == renew_by_email

\* read_legacy_config
read_legacy_config(c, baseurl) ==
    LET enabled == IF "enabled" \in c.keys THEN c.enabled ELSE FALSE
        renew_by_email == "renew_at" \in c.keys
        base == [Defaults EXCEPT !.warned = TRUE,
                                 !.account_validity_enabled = enabled,
                                 !.account_validity_renew_by_email_enabled = renew_by_email]
        period == parse_duration(PeriodValue)
        on == [base EXCEPT
                 !.account_validity_period = period,
                 !.account_validity_renew_at =
                     IF "renew_at" \in c.keys THEN parse_duration(RenewAtValue) ELSE Unset,
                 !.account_validity_renew_email_subject =
                     IF "renew_email_subject" \in c.keys THEN SubjectValue
                     ELSE "Renew your %(app)s account",
                 !.account_validity_startup_job_max_delta = (period * 10) \div 100]
    IN IF enabled /\ "period" \notin c.keys
       THEN ConfigError(base, "'period' is required when using account validity")
       ELSE LET attrs == IF enabled THEN on ELSE base
            IN IF needs_public_baseurl(enabled, renew_by_email) /\ baseurl = None
               THEN ConfigError(attrs, NoBaseurlMsg)
               ELSE [attrs EXCEPT !.pc = "loaded"]

\* a read_config that assigns the module instead of appending it
append_module_Assigned(modules, module) == <<module>>

\* a read_config that puts each module in front of the list
append_module_InFront(modules, module) == <<module>> \o modules

\* read_config, "self.account_validity_modules.append(load_module(...))"
append_module(modules, module) == Append(modules, module)

\* read_config, the loop over the list of descriptors, from item i on
RECURSIVE load_modules(_, _, _)
load_modules(items, i, attrs) ==
    IF i > Len(items)
    THEN [attrs EXCEPT !.pc = "loaded"]
    ELSE IF ~items[i].is_dict
    THEN ConfigError(attrs, "expected a mapping")
    ELSE IF ~load_module(items[i]).ok
    THEN ConfigError(attrs, "failed to load module")
    ELSE load_modules(items, i + 1,
                      [attrs EXCEPT !.account_validity_modules =
                          append_module(@, load_module(items[i]).module)])

\* read_config
read_config(c, baseurl) ==
    IF c.type = "none" THEN [Defaults EXCEPT !.pc = "loaded"]
    ELSE IF c.type = "dict" THEN read_legacy_config(c, baseurl)
    ELSE IF c.type = "list" THEN load_modules(c.items, 1, Defaults)
    ELSE ConfigError(Defaults, "account_validity syntax is incorrect")

\* an account validity module's user_expired: (expired, decisive)
user_expired(module, user) ==
    CASE module.cls = "mod.NoOpinion" -> [expired |-> TRUE, decisive |-> FALSE]
      [] module.cls = "mod.AlwaysExpired" -> [expired |-> TRUE, decisive |-> TRUE]
      [] module.cls = "mod.NeverExpired" -> [expired |-> FALSE, decisive |-> TRUE]
      [] OTHER -> IF user = "@bob:hs"
                  THEN [expired |-> TRUE, decisive |-> TRUE]
                  ELSE [expired |-> FALSE, decisive |-> FALSE]

Users == {"@alice:hs", "@bob:hs"}

IdleCheck == [pc |-> "idle", user |-> None, next |-> 1, invoked |-> <<>>, result |-> FALSE]

\* the server starts: the configuration is read once
ReadConfig ==
    /\ cfg.pc = "unloaded"
    /\ cfg' = read_config(config, public_baseurl)
    /\ UNCHANGED <<config, public_baseurl, chk>>
    /\ UNCHANGED notPolVars

\* is_user_expired(user) is called on a server that started
StartExpiryCheck(user) ==
    /\ cfg.pc = "loaded"
    /\ chk.pc \in {"idle", "done"}
    /\ chk' = [IdleCheck EXCEPT !.pc = "running", !.user = user]
    /\ UNCHANGED <<config, public_baseurl, cfg>>
    /\ UNCHANGED notPolVars

\* is_user_expired: the next module's user_expired is awaited; a decisive
\* answer is returned at once
CallModule ==
    /\ chk.pc = "running"
    /\ chk.next <= Len(cfg.account_validity_modules)
    /\ LET module == cfg.account_validity_modules[chk.next]
           answer == user_expired(module, chk.user)
       IN chk' = IF answer.decisive
                 THEN [chk EXCEPT !.pc = "done", !.result = answer.expired,
                                  !.invoked = Append(@, module.cls)]
                 ELSE [chk EXCEPT !.next = @ + 1, !.invoked = Append(@, module.cls)]
    /\ UNCHANGED <<config, public_baseurl, cfg>>
    /\ UNCHANGED notPolVars

\* is_user_expired: no module is left, the account is not expired
NoModuleLeft ==
    /\ chk.pc = "running"
    /\ chk.next > Len(cfg.account_validity_modules)
    /\ chk' = [chk EXCEPT !.pc = "done", !.result = FALSE]
    /\ UNCHANGED <<config, public_baseurl, cfg>>
    /\ UNCHANGED notPolVars

InitPolicy ==
    /\ config \in ConfigInputs
    /\ public_baseurl \in {None, "https://hs.example/"}
    /\ cfg = Defaults
    /\ chk = IdleCheck
    /\ InitDirectoryIdle
    /\ InitPublicationIdle

DoStartExpiryCheck == \E user \in Users : StartExpiryCheck(user)

NextPolicy ==
    \/ ReadConfig
    \/ DoStartExpiryCheck
    \/ CallModule
    \/ NoModuleLeft

SpecPolicy == InitPolicy /\ [][NextPolicy]_vars

(***************************************************************************)
(* Claims about the account validity configuration and its module chain    *)
(***************************************************************************)
\* the modules the configuration file names, in the order it names them
ConfiguredModules ==
    IF config.type = "list"
    THEN [k \in 1..Len(config.items) |-> config.items[k].module]
    ELSE <<>>

ConfiguredAnswer(k) == user_expired([cls |-> ConfiguredModules[k]], chk.user)

DecisiveModules == {k \in DOMAIN ConfiguredModules : ConfiguredAnswer(k).decisive}

FirstDecisive == CHOOSE k \in DecisiveModules : \A j \in DecisiveModules : k <= j

\* C7: is_user_expired calls the configured modules in configured order and
\* returns the expired value of the first decisive one, calling none after
\* it; when no module is decisive, or none is configured, it returns false.
C7_FirstDecisiveWins ==
    /\ chk.pc \in {"running", "done"} =>
          /\ Len(chk.invoked) <= Len(ConfiguredModules)
          /\ \A k \in DOMAIN chk.invoked : chk.invoked[k] = ConfiguredModules[k]
    /\ chk.pc = "done" =>
          IF DecisiveModules = {}
          THEN chk.result = FALSE /\ chk.invoked = ConfiguredModules
          ELSE /\ chk.result = ConfiguredAnswer(FirstDecisive).expired
               /\ chk.invoked = SubSeq(ConfiguredModules, 1, FirstDecisive)

\* C7 witness: the chain [no opinion, decisive and expired, decisive and not
\* expired] answered true without calling the third module
C7_Witness ==
    /\ ConfiguredModules = <<"mod.NoOpinion", "mod.AlwaysExpired", "mod.NeverExpired">>
    /\ chk.pc = "done" /\ chk.result = TRUE
    /\ chk.invoked = <<"mod.NoOpinion", "mod.AlwaysExpired">>

\* C8: with a legacy mapping, a renew_at key without public_baseurl makes the
\* configuration fail with ConfigError, whether the feature is enabled or
\* not; without renew_at, or with public_baseurl, the public_baseurl check
\* fails nothing.
C8_RenewAtNeedsBaseurl ==
    (config.type = "dict" /\ cfg.pc # "unloaded") =>
        /\ ("renew_at" \in config.keys /\ public_baseurl = None) =>
              cfg.pc = "failed" /\ cfg.err = "ConfigError"
        /\ ("renew_at" \notin config.keys \/ public_baseurl # None) =>
              cfg.msg # NoBaseurlMsg

\* C8 witness: the legacy feature is not enabled, renew_at is given, there is
\* no public_baseurl, and the configuration failed on that
C8_Witness ==
    /\ config.type = "dict" /\ "renew_at" \in config.keys
    /\ ~("enabled" \in config.keys /\ config.enabled)
    /\ public_baseurl = None
    /\ cfg.pc = "failed" /\ cfg.err = "ConfigError" /\ cfg.msg = NoBaseurlMsg

\* the modules of the descriptors, in configured order
LoadedModules == [k \in 1..Len(config.items) |-> load_module(config.items[k]).module]

\* C9 as claimed: after a successful load the module sequence holds one module
\* per descriptor in order, a legacy mapping is a one-element chain of a
\* built-in module, and the sequence is empty only when no policy is configured
C9_AsClaimed ==
    cfg.pc = "loaded" =>
        /\ config.type = "list" => cfg.account_validity_modules = LoadedModules
        /\ config.type = "dict" =>
              /\ Len(cfg.account_validity_modules) = 1
              /\ cfg.account_validity_modules[1].cls \notin ModuleNames
        /\ cfg.account_validity_modules = <<>> =>
              config.type = "none" \/ (config.type = "list" /\ config.items = <<>>)

\* C9: after a successful load the module sequence holds one module per
\* descriptor, in configured order, when account_validity is a list; with a
\* legacy mapping it stays empty and the policy is in the scalar attributes
\* (enabled, renew by email), with the deprecation warning logged; so it is
\* empty exactly when nothing is configured, the legacy mapping is used, or
\* the list is empty.
C9_ModulesFromDescriptorsOnly ==
    cfg.pc = "loaded" =>
        /\ config.type = "list" => cfg.account_validity_modules = LoadedModules
        /\ config.type = "dict" =>
              /\ cfg.account_validity_modules = <<>>
              /\ cfg.account_validity_enabled
                   = ("enabled" \in config.keys /\ config.enabled)
              /\ cfg.account_validity_renew_by_email_enabled
                   = ("renew_at" \in config.keys)
              /\ cfg.warned
        /\ cfg.account_validity_modules = <<>> <=>
              \/ config.type \in {"none", "dict"}
              \/ (config.type = "list" /\ config.items = <<>>)

\* C9 witness: an enabled legacy mapping was loaded, and the module sequence
\* is empty
C9_Witness ==
    /\ cfg.pc = "loaded" /\ config.type = "dict"
    /\ cfg.account_validity_enabled
    /\ cfg.account_validity_period = parse_duration(PeriodValue)
    /\ cfg.account_validity_modules = <<>>

====
